---- MODULE Spec2Model ----
(***************************************************************************)
(* Word search puzzle generator (basic.go).                                *)
(*                                                                         *)
(* main loads a vocabulary, filters it by length, selects words at random, *)
(* draws the word list, calls generateWordSearchGrid, writes output.png    *)
(* and prints / verifies the placements.                                   *)
(*                                                                         *)
(* Characters are Go runes / bytes, modelled by their code points: 'A' is  *)
(* 65, 'a' is 97, ' ' is 32, '?' is 63 and the empty cell is the rune 0.   *)
(* A string is a sequence of code points (1-based here, 0-based in Go).    *)
(* Every call of rand.Intn is a nondeterministic choice.                   *)
(***************************************************************************)
EXTENDS Integers, Sequences, FiniteSets, TLC

(***************************************************************************)
(* Sizes.  The source uses gridSize = 10, maxAttempts = 100 and the literal *)
(* 10 for the number of words; the model scales all three down.            *)
(***************************************************************************)
\* const gridSize = 10 in the source (scaled)
gridSize == 3

\* maxAttempts := 100 in the source (scaled)
maxAttempts == 2

\* the literal 10 of loadCustomVocab and main: words required and selected (scaled)
wordCount == 2

(***************************************************************************)
(* Text helpers of the model: code points of letters, strings as tuples.   *)
(***************************************************************************)
UpperLetters ==
    << "A", "B", "C", "D", "E", "F", "G", "H", "I", "J", "K", "L", "M",
       "N", "O", "P", "Q", "R", "S", "T", "U", "V", "W", "X", "Y", "Z" >>

LowerLetters ==
    << "a", "b", "c", "d", "e", "f", "g", "h", "i", "j", "k", "l", "m",
       "n", "o", "p", "q", "r", "s", "t", "u", "v", "w", "x", "y", "z" >>

\* code point of a one-character string: a letter of either case, else a space
Rune(ch) ==
    IF \E i \in 1..26 : UpperLetters[i] = ch
    THEN 64 + (CHOOSE i \in 1..26 : UpperLetters[i] = ch)
    ELSE IF \E i \in 1..26 : LowerLetters[i] = ch
         THEN 96 + (CHOOSE i \in 1..26 : LowerLetters[i] = ch)
         ELSE 32

\* the Go string spelled by a tuple of one-character strings
Str(t) == [i \in 1..Len(t) |-> Rune(t[i])]

IsUpperLetter(r) == r \in 65..90

\* strings.ToUpper on ASCII text: a-z move down by 32, everything else stays
ToUpper(s) == [i \in 1..Len(s) |-> IF s[i] \in 97..122 THEN s[i] - 32 ELSE s[i]]

Range(s) == {s[i] : i \in 1..Len(s)}

(***************************************************************************)
(* Directions and the grid.                                                *)
(***************************************************************************)
RIGHT == 0
LEFT == 1
DOWN == 2
UP == 3
DOWN_RIGHT == 4
DOWN_LEFT == 5
UP_RIGHT == 6
UP_LEFT == 7

Directions == 0..7

Coords == 0..(gridSize - 1)

\* var grid [gridSize][gridSize]rune, every cell 0
EmptyGrid == [r \in Coords |-> [c \in Coords |-> 0]]

getDirectionDeltasSwapped(direction) ==
    CASE direction = RIGHT -> <<0, -1>>
      [] direction = LEFT -> <<0, 1>>
      [] direction = DOWN -> <<-1, 0>>
      [] direction = UP -> <<1, 0>>
      [] direction = DOWN_RIGHT -> <<1, 1>>
      [] direction = DOWN_LEFT -> <<1, -1>>
      [] direction = UP_RIGHT -> <<-1, 1>>
      [] direction = UP_LEFT -> <<-1, -1>>
      [] OTHER -> <<0, 1>>

getDirectionDeltas(direction) ==
    CASE direction = RIGHT -> <<0, 1>>
      [] direction = LEFT -> <<0, -1>>
      [] direction = DOWN -> <<1, 0>>
      [] direction = UP -> <<-1, 0>>
      [] direction = DOWN_RIGHT -> <<1, 1>>
      [] direction = DOWN_LEFT -> <<1, -1>>
      [] direction = UP_RIGHT -> <<-1, 1>>
      [] direction = UP_LEFT -> <<-1, -1>>
      [] OTHER -> <<0, 1>>

\* the cell of the i-th letter (i from 0) of a path
PathRow(row, direction, i) == row + getDirectionDeltas(direction)[1] * i
PathCol(col, direction, i) == col + getDirectionDeltas(direction)[2] * i

InGrid(r, c) == r >= 0 /\ r < gridSize /\ c >= 0 /\ c < gridSize

canPlaceWordNoConflictCheck(g, word, row, col, direction) ==
    LET wordLen == Len(word)
        endRow == PathRow(row, direction, wordLen - 1)
        endCol == PathCol(col, direction, wordLen - 1)
    IN  ~(endRow < 0 \/ endRow >= gridSize \/ endCol < 0 \/ endCol >= gridSize)

canPlaceWordChecksFirstLetterOnly(g, word, row, col, direction) ==
    LET wordLen == Len(word)
        endRow == PathRow(row, direction, wordLen - 1)
        endCol == PathCol(col, direction, wordLen - 1)
    IN  IF endRow < 0 \/ endRow >= gridSize \/ endCol < 0 \/ endCol >= gridSize
        THEN FALSE
        ELSE ~(g[row][col] # 0 /\ g[row][col] # word[1])

canPlaceWord(g, word, row, col, direction) ==
    LET wordLen == Len(word)
        endRow == PathRow(row, direction, wordLen - 1)
        endCol == PathCol(col, direction, wordLen - 1)
    IN  IF endRow < 0 \/ endRow >= gridSize \/ endCol < 0 \/ endCol >= gridSize
        THEN FALSE
        ELSE \A i \in 0..(wordLen - 1) :
                LET existingLetter == g[PathRow(row, direction, i)][PathCol(col, direction, i)]
                IN  ~(existingLetter # 0 /\ existingLetter # word[i + 1])

placeWord(g, word, row, col, direction) ==
    [r \in Coords |-> [c \in Coords |->
        IF \E i \in 0..(Len(word) - 1) :
              PathRow(row, direction, i) = r /\ PathCol(col, direction, i) = c
        THEN word[1 + CHOOSE i \in 0..(Len(word) - 1) :
                      PathRow(row, direction, i) = r /\ PathCol(col, direction, i) = c]
        ELSE g[r][c]]]

\* WordPlacement{Word, Row, Col, Direction}
WordPlacement(word, row, col, direction) ==
    [Word |-> word, Row |-> row, Col |-> col, Direction |-> direction]

(***************************************************************************)
(* The fill pass.  rand.Intn(26) is called once per empty cell, in         *)
(* row-major order; a stream gives the value of the k-th call (k from 0).  *)
(***************************************************************************)
RandStreams == { [a |-> 25, b |-> 0], [a |-> 2, b |-> 7] }

Intn26(stream, k) == (stream.a + stream.b * k) % 26

\* number of empty cells before (r, c) in row-major order
EmptyBefore(g, r, c) ==
    Cardinality({ p \in Coords \X Coords :
                    /\ g[p[1]][p[2]] = 0
                    /\ (p[1] < r \/ (p[1] = r /\ p[2] < c)) })

fillOverwritesAll(g, stream) ==
    [r \in Coords |-> [c \in Coords |-> 65 + Intn26(stream, r * gridSize + c)]]

fillSkipsLastCell(g, stream) ==
    [r \in Coords |-> [c \in Coords |->
        IF g[r][c] = 0 /\ ~(r = gridSize - 1 /\ c = gridSize - 1)
        THEN 65 + Intn26(stream, EmptyBefore(g, r, c))
        ELSE g[r][c]]]

fillEmptyCells(g, stream) ==
    [r \in Coords |-> [c \in Coords |->
        IF g[r][c] = 0
        THEN 65 + Intn26(stream, EmptyBefore(g, r, c))
        ELSE g[r][c]]]

(***************************************************************************)
(* verifyWordPlacements: the text read back for one placement, '?' (63)    *)
(* for a coordinate outside the grid.                                      *)
(***************************************************************************)
extractedWord(g, placement) ==
    [k \in 1..Len(placement.Word) |->
        LET currentRow == PathRow(placement.Row, placement.Direction, k - 1)
            currentCol == PathCol(placement.Col, placement.Direction, k - 1)
        IN  IF currentRow >= 0 /\ currentRow < gridSize
               /\ currentCol >= 0 /\ currentCol < gridSize
            THEN g[currentRow][currentCol]
            ELSE 63]

verifyWordPlacements(g, ps) ==
    [k \in 1..Len(ps) |-> extractedWord(g, ps[k]) = ps[k].Word]

(***************************************************************************)
(* Input of a run: the -vocab flag and the files it may name.              *)
(***************************************************************************)
\* firstGradeVocab, scaled: short words and one longer than the grid side
firstGradeVocab ==
    << Str(<<"f", "o", "g">>), Str(<<"s", "l", "y">>), Str(<<"s", "o", "b">>),
       Str(<<"i", "l", "l", "u", "s", "t", "r", "a", "t", "o", "r">>) >>

\* the lines of the vocabulary files that exist; any other name fails to open
Files ==
    [ short |-> << Str(<<"c", "a", "t">>), <<>>, Str(<<" ", " ">>) >>,
      long  |-> << Str(<<"c", "a", "t">>), Str(<<"h", "o", "r", "s", "e">>),
                   Str(<<"z", "e", "b", "r", "a">>) >>,
      exact |-> << Str(<<" ", "c", "a", "t", " ">>), Str(<<"d", "o", "g">>) >>,
      mixed |-> << Str(<<"c", "a", "t">>), Str(<<"C", "a", "t">>),
                   Str(<<"h", "o", "r", "s", "e">>) >> ]

VocabFlags == {"", "missing", "short", "long", "exact", "mixed"}

RECURSIVE TrimLeft(_)
TrimLeft(s) == IF s # <<>> /\ Head(s) = 32 THEN TrimLeft(Tail(s)) ELSE s

RECURSIVE TrimRight(_)
TrimRight(s) ==
    IF s # <<>> /\ s[Len(s)] = 32 THEN TrimRight(SubSeq(s, 1, Len(s) - 1)) ELSE s

\* strings.TrimSpace
TrimSpace(s) == TrimRight(TrimLeft(s))

\* the scan loop of loadCustomVocab: trimmed lines, empty ones skipped
RECURSIVE scanWords(_)
scanWords(lines) ==
    IF lines = <<>> THEN <<>>
    ELSE LET word == TrimSpace(Head(lines))
         IN  IF word # <<>> THEN <<word>> \o scanWords(Tail(lines))
             ELSE scanWords(Tail(lines))

\* loadCustomVocab: [err, words]
loadCustomVocab(filename) ==
    IF filename \notin DOMAIN Files
    THEN [err |-> TRUE, words |-> <<>>]
    ELSE LET ws == scanWords(Files[filename])
         IN  IF Len(ws) < wordCount
             THEN [err |-> TRUE, words |-> <<>>]
             ELSE [err |-> FALSE, words |-> ws]

RECURSIVE filterWordsByLength(_, _)
filterWordsByLength(ws, maxLength) ==
    IF ws = <<>> THEN <<>>
    ELSE IF Len(Head(ws)) <= maxLength
         THEN <<Head(ws)>> \o filterWordsByLength(Tail(ws), maxLength)
         ELSE filterWordsByLength(Tail(ws), maxLength)

notEnoughWordsNever(v) == FALSE

\* main: if len(vocabulary) < 10 { log.Fatalf(...) }
notEnoughWords(v) == Len(v) < wordCount

removeAtShrinkOnly(t, randomIndex) == SubSeq(t, 1, Len(t) - 1)

\* temp[randomIndex] = temp[len(temp)-1]; temp = temp[:len(temp)-1]
removeAt(t, randomIndex) ==
    SubSeq([t EXCEPT ![randomIndex] = t[Len(t)]], 1, Len(t) - 1)

selectLoopCond(ws, t) == Len(ws) < wordCount /\ Len(t) > 0

attemptLoopCondOffByOne(isPlaced, n) == ~isPlaced /\ n <= maxAttempts

attemptLoopCondIgnoresPlaced(isPlaced, n) == n < maxAttempts

\* for !placed && attempts < maxAttempts
attemptLoopCond(isPlaced, n) == ~isPlaced /\ n < maxAttempts

(***************************************************************************)
(* State.                                                                  *)
(***************************************************************************)
VARIABLES
    pc,             \* position in main / generateWordSearchGrid
    vocabFile,      \* *vocabFile, the -vocab flag
    vocabulary,     \* main's vocabulary
    temp,           \* main's working copy the selector draws from
    words,          \* the selected words, upper-cased
    listed,         \* the words drawWordList has drawn on the image
    grid,           \* generateWordSearchGrid's grid
    placements,     \* generateWordSearchGrid's placements
    wordIdx,        \* position of the range loop over words (1-based)
    attempts,       \* attempts of the current word
    placed,         \* placed of the current word
    totalAttempts,  \* attempts made since generateWordSearchGrid was entered
    warnings,       \* words reported by "Warning: Could not place word"
    outputCreated,  \* os.Create("output.png") has succeeded
    imageGrid,      \* the grid drawLetterGrid has drawn on the image
    totalPlaced,    \* the number printed as "Total words placed"
    verified        \* verifyWordPlacements' verdict per placement

vars ==
    << pc, vocabFile, vocabulary, temp, words, listed, grid, placements, wordIdx,
       attempts, placed, totalAttempts, warnings, outputCreated, imageGrid,
       totalPlaced, verified >>

inputVars == << vocabFile >>
selectVars == << vocabulary, temp, words >>
genVars == << grid, placements, wordIdx, attempts, placed, totalAttempts, warnings >>
outVars == << outputCreated, imageGrid, totalPlaced, verified >>

\* the state of a run before main's line "Determine which vocabulary to use"
InitMain ==
    /\ pc = "load"
    /\ vocabFile \in VocabFlags
    /\ vocabulary = <<>>
    /\ temp = <<>>
    /\ words = <<>>
    /\ listed = <<>>
    /\ grid = EmptyGrid
    /\ placements = <<>>
    /\ wordIdx = 1
    /\ attempts = 0
    /\ placed = FALSE
    /\ totalAttempts = 0
    /\ warnings = <<>>
    /\ outputCreated = FALSE
    /\ imageGrid = EmptyGrid
    /\ totalPlaced = -1
    /\ verified = <<>>

(***************************************************************************)
(* main, up to the call of generateWordSearchGrid.                         *)
(***************************************************************************)
\* lines 225-247: load (or default), filter, check the count
LoadVocabulary ==
    /\ pc = "load"
    /\ LET loaded == IF vocabFile # ""
                     THEN loadCustomVocab(vocabFile)
                     ELSE [err |-> FALSE, words |-> firstGradeVocab]
           filtered == filterWordsByLength(loaded.words, gridSize)
       IN  IF loaded.err
           THEN /\ pc' = "fatal"
                /\ UNCHANGED << vocabulary, temp >>
           ELSE IF notEnoughWords(filtered)
                THEN /\ pc' = "fatal"
                     /\ vocabulary' = filtered
                     /\ UNCHANGED temp
                ELSE /\ pc' = "select"
                     /\ vocabulary' = filtered
                     /\ temp' = filtered
    /\ UNCHANGED << vocabFile, words, listed >>
    /\ UNCHANGED genVars
    /\ UNCHANGED outVars

\* lines 254-260: one iteration of the selection loop
SelectWord ==
    /\ pc = "select"
    /\ selectLoopCond(words, temp)      \* the loop counter i is len(words)
    /\ \E randomIndex \in 1..Len(temp) :
          /\ words' = Append(words, ToUpper(temp[randomIndex]))
          /\ temp' = removeAt(temp, randomIndex)
    /\ UNCHANGED << pc, vocabFile, vocabulary, listed >>
    /\ UNCHANGED genVars
    /\ UNCHANGED outVars

\* the selection loop ends
SelectDone ==
    /\ pc = "select"
    /\ ~selectLoopCond(words, temp)
    /\ pc' = "draw"
    /\ UNCHANGED << vocabFile, vocabulary, temp, words, listed >>
    /\ UNCHANGED genVars
    /\ UNCHANGED outVars

(***************************************************************************)
(* drawWordList and generateWordSearchGrid.                                *)
(***************************************************************************)
\* line 274 drawWordList(img, words); line 277 enters generateWordSearchGrid
DrawWordList ==
    /\ pc = "draw"
    /\ listed' = words
    /\ pc' = "place"
    /\ grid' = EmptyGrid
    /\ placements' = <<>>
    /\ wordIdx' = 1
    /\ attempts' = 0
    /\ placed' = FALSE
    /\ totalAttempts' = 0
    /\ warnings' = <<>>
    /\ UNCHANGED << vocabFile, vocabulary, temp, words >>
    /\ UNCHANGED outVars

\* lines 315-332: one iteration of the attempt loop of the current word
AttemptBody ==
    /\ pc = "place"
    /\ wordIdx <= Len(words)
    /\ attemptLoopCond(placed, attempts)
    /\ \E row \in Coords, col \in Coords, direction \in Directions :
          LET word == words[wordIdx]
          IN  IF canPlaceWord(grid, word, row, col, direction)
              THEN /\ grid' = placeWord(grid, word, row, col, direction)
                   /\ placements' = Append(placements, WordPlacement(word, row, col, direction))
                   /\ placed' = TRUE
              ELSE UNCHANGED << grid, placements, placed >>
    /\ attempts' = attempts + 1
    /\ UNCHANGED << pc, wordIdx, warnings >>
    /\ UNCHANGED inputVars
    /\ UNCHANGED selectVars
    /\ UNCHANGED listed
    /\ UNCHANGED outVars

\* an iteration of the attempt loop, counted in totalAttempts
Attempt == AttemptBody /\ totalAttempts' = totalAttempts + 1

\* the same iteration in a whole run, where the attempts are not counted
AttemptInRun == AttemptBody /\ UNCHANGED totalAttempts

\* lines 334-337 and 310-313: the attempt loop ends, the range loop moves on
NextWord ==
    /\ pc = "place"
    /\ wordIdx <= Len(words)
    /\ ~attemptLoopCond(placed, attempts)
    /\ warnings' = IF ~placed THEN Append(warnings, words[wordIdx]) ELSE warnings
    /\ wordIdx' = wordIdx + 1
    /\ placed' = FALSE
    /\ attempts' = 0
    /\ UNCHANGED << pc, grid, placements, totalAttempts >>
    /\ UNCHANGED inputVars
    /\ UNCHANGED selectVars
    /\ UNCHANGED listed
    /\ UNCHANGED outVars

\* lines 339-348: the fill pass and the return
FillEmpty ==
    /\ pc = "place"
    /\ wordIdx > Len(words)
    /\ \E stream \in RandStreams : grid' = fillEmptyCells(grid, stream)
    /\ pc' = "output"
    /\ UNCHANGED << placements, wordIdx, attempts, placed, totalAttempts, warnings >>
    /\ UNCHANGED inputVars
    /\ UNCHANGED selectVars
    /\ UNCHANGED listed
    /\ UNCHANGED outVars

\* lines 278-294: draw the grid, create and encode output.png, print, verify
WriteOutput ==
    /\ pc = "output"
    /\ imageGrid' = grid
    /\ \E created \in BOOLEAN, encoded \in BOOLEAN :
          /\ outputCreated' = created
          /\ IF created /\ encoded
             THEN /\ totalPlaced' = Len(placements)
                  /\ verified' = verifyWordPlacements(grid, placements)
                  /\ pc' = "done"
             ELSE /\ pc' = "fatal"
                  /\ UNCHANGED << totalPlaced, verified >>
    /\ UNCHANGED inputVars
    /\ UNCHANGED selectVars
    /\ UNCHANGED listed
    /\ UNCHANGED genVars

NextGen == DrawWordList \/ Attempt \/ NextWord \/ FillEmpty \/ WriteOutput

NextMain ==
    \/ LoadVocabulary
    \/ SelectWord
    \/ SelectDone
    \/ DrawWordList
    \/ AttemptInRun
    \/ NextWord
    \/ FillEmpty
    \/ WriteOutput

\* a whole run of the program
SpecMain == InitMain /\ [][NextMain]_vars

(***************************************************************************)
(* generateWordSearchGrid and the rest of main on a given word list.       *)
(***************************************************************************)
CAT == Str(<<"C", "A", "T">>)
DOG == Str(<<"D", "O", "G">>)
TAG == Str(<<"T", "A", "G">>)
TO == Str(<<"T", "O">>)
FISH == Str(<<"F", "I", "S", "H">>)
SHIP == Str(<<"S", "H", "I", "P">>)

CandidateLists ==
    { <<>>, <<CAT>>, <<CAT, DOG>>, <<CAT, TAG>>, <<TO, CAT>>, <<CAT, CAT>>,
      <<FISH>>, <<FISH, SHIP>> }

\* word lists handed to generateWordSearchGrid: upper-cased, no longer than the grid
WordLists ==
    { ws \in CandidateLists : \A k \in 1..Len(ws) : Len(ws[k]) <= gridSize }

\* the state of main after the selection loop, for a given selection
InitGen ==
    /\ pc = "draw"
    /\ vocabFile = ""
    /\ words \in WordLists
    /\ vocabulary = words
    /\ temp = <<>>
    /\ listed = <<>>
    /\ grid = EmptyGrid
    /\ placements = <<>>
    /\ wordIdx = 1
    /\ attempts = 0
    /\ placed = FALSE
    /\ totalAttempts = 0
    /\ warnings = <<>>
    /\ outputCreated = FALSE
    /\ imageGrid = EmptyGrid
    /\ totalPlaced = -1
    /\ verified = <<>>

Spec == InitGen /\ [][NextGen]_vars

\* the loops are sequential code: a step that can be taken is taken
FairSpec == Spec /\ WF_vars(NextGen)

(***************************************************************************)
(* Helpers of the properties.                                              *)
(***************************************************************************)
\* the cells of the path of a placement, as <<row, col>> per offset (from 0)
CellAt(p, i) == << PathRow(p.Row, p.Direction, i), PathCol(p.Col, p.Direction, i) >>

Offsets(p) == 0..(Len(p.Word) - 1)

\* two recorded placements share a cell
Crossing(p, q) == \E i \in Offsets(p), j \in Offsets(q) : CellAt(p, i) = CellAt(q, j)

SomeCrossing ==
    \E k \in 1..Len(placements), m \in 1..Len(placements) :
        k < m /\ Crossing(placements[k], placements[m])

\* generateWordSearchGrid has returned
Returned == pc \in {"output", "done"} \/ (pc = "fatal" /\ imageGrid # EmptyGrid)

\* a is b with some positions left out, order kept
RECURSIVE IsSubsequence(_, _)
IsSubsequence(a, b) ==
    IF a = <<>> THEN TRUE
    ELSE IF b = <<>> THEN FALSE
    ELSE IF Head(a) = Head(b) THEN IsSubsequence(Tail(a), Tail(b))
    ELSE IsSubsequence(a, Tail(b))

PlacedWords == [k \in 1..Len(placements) |-> placements[k].Word]

Count(seq, x) == Cardinality({k \in 1..Len(seq) : seq[k] = x})

NoDuplicates(seq) == \A k \in 1..Len(seq), m \in 1..Len(seq) : seq[k] = seq[m] => k = m

C3_AcceptedOnlyWithoutConflict ==
    [][ /\ Len(placements') > Len(placements) =>
              LET p == placements'[Len(placements')]
              IN  \A i \in Offsets(p) :
                      LET cell == CellAt(p, i)
                      IN  /\ InGrid(cell[1], cell[2])
                          /\ grid[cell[1]][cell[2]] \in {0, p.Word[i + 1]}
        /\ \A k \in 1..Len(placements'), m \in 1..Len(placements') :
              \A i \in Offsets(placements'[k]), j \in Offsets(placements'[m]) :
                  CellAt(placements'[k], i) = CellAt(placements'[m], j) =>
                      placements'[k].Word[i + 1] = placements'[m].Word[j + 1]
      ]_vars

\* CAT and TAG have been placed across each other
C3_Witness ==
    /\ pc = "place"
    /\ Len(placements) = 2
    /\ placements[1].Word # placements[2].Word
    /\ SomeCrossing

(***************************************************************************)
(* C4.  A word as long as the grid side is accepted only from the start    *)
(* cells its direction allows, on every grid.                              *)
(***************************************************************************)
FullLengthWords == {w \in Range(words) : Len(w) = gridSize}

Corners == { <<r, c>> \in Coords \X Coords :
                r \in {0, gridSize - 1} /\ c \in {0, gridSize - 1} }

\* C4 as claimed: row or column 0 for the axis-aligned directions, a corner for the
\* diagonal ones
C4_AsClaimed ==
    \A k \in 1..Len(placements) :
        Len(placements[k].Word) = gridSize =>
            IF placements[k].Direction \in {RIGHT, LEFT, DOWN, UP}
            THEN placements[k].Row = 0 \/ placements[k].Col = 0
            ELSE <<placements[k].Row, placements[k].Col>> \in Corners

\* the start cells from which a word of the grid's side length fits
AllowedStart(row, col, direction) ==
    CASE direction = RIGHT -> col = 0
      [] direction = LEFT -> col = gridSize - 1
      [] direction = DOWN -> row = 0
      [] direction = UP -> row = gridSize - 1
      [] direction = DOWN_RIGHT -> row = 0 /\ col = 0
      [] direction = DOWN_LEFT -> row = 0 /\ col = gridSize - 1
      [] direction = UP_RIGHT -> row = gridSize - 1 /\ col = 0
      [] direction = UP_LEFT -> row = gridSize - 1 /\ col = gridSize - 1

\* C4 amended: column 0 for RIGHT and row 0 for DOWN, the last column for LEFT and
\* the last row for UP, and for each diagonal direction the one corner it leaves from;
\* every other start cell is rejected, on the empty grid as on any other
C4_FullLengthStartCells ==
    /\ \A w \in FullLengthWords, row \in Coords, col \in Coords, direction \in Directions :
          canPlaceWord(grid, w, row, col, direction) => AllowedStart(row, col, direction)
    /\ \A k \in 1..Len(placements) :
          Len(placements[k].Word) = gridSize =>
              AllowedStart(placements[k].Row, placements[k].Col, placements[k].Direction)

\* a full-length word placed leftwards from the last column of a row other than 0,
\* after an earlier word
C4_Witness ==
    \E k \in 1..Len(placements) :
        /\ k > 1
        /\ Len(placements[k].Word) = gridSize
        /\ placements[k].Direction = LEFT
        /\ placements[k].Col = gridSize - 1
        /\ placements[k].Row # 0

(***************************************************************************)
(* C5.  Generation terminates: a word gets at most maxAttempts attempts,   *)
(* every attempt increments the counter, the loop of a word stops at the   *)
(* first accepted attempt or when the budget is used up, no earlier word   *)
(* is attempted again, and at most maxAttempts * len(words) attempts are   *)
(* made before the fill pass and the return.                               *)
(***************************************************************************)
C5_AttemptBounds ==
    /\ attempts <= maxAttempts
    /\ totalAttempts <= maxAttempts * Len(words)
    /\ pc = "place" => totalAttempts <= maxAttempts * (wordIdx - 1) + attempts
    /\ pc # "place" /\ pc # "draw" => wordIdx = Len(words) + 1

C5_AttemptStep ==
    /\ wordIdx' >= wordIdx
    /\ totalAttempts' # totalAttempts =>
          /\ totalAttempts' = totalAttempts + 1
          /\ attempts' = attempts + 1
          /\ wordIdx' = wordIdx
          /\ ~placed
          /\ attempts < maxAttempts
    /\ attempts' < attempts => wordIdx' = wordIdx + 1
    /\ wordIdx' # wordIdx => placed \/ attempts = maxAttempts

\* C5: the attempt bounds hold in every state, every step is a step of the bounded
\* loops, and every run reaches the end of main
C5_Terminates ==
    /\ []C5_AttemptBounds
    /\ [][C5_AttemptStep]_vars
    /\ <>(pc \in {"done", "fatal"})

\* both words of a list have used their whole budget
C5_Witness ==
    /\ pc = "done"
    /\ Len(words) = 2
    /\ totalAttempts = maxAttempts * Len(words)

SourceLines ==
    IF vocabFile = "" THEN firstGradeVocab
    ELSE IF vocabFile \in DOMAIN Files THEN Files[vocabFile]
    ELSE <<>>

NonEmptyLines == {k \in 1..Len(SourceLines) : \E j \in 1..Len(SourceLines[k]) : SourceLines[k][j] # 32}

UsableLines == {k \in NonEmptyLines : Len(TrimSpace(SourceLines[k])) <= gridSize}

TooFewWords ==
    \/ Cardinality(UsableLines) < wordCount
    \/ vocabFile # "" /\ Cardinality(NonEmptyLines) < wordCount

C7_TooFewWordsAborts ==
    TooFewWords =>
        /\ pc \in {"load", "fatal"}
        /\ words = <<>>
        /\ temp = <<>>
        /\ listed = <<>>
        /\ grid = EmptyGrid
        /\ placements = <<>>
        /\ attempts = 0
        /\ imageGrid = EmptyGrid
        /\ ~outputCreated

\* the file has enough lines, but too few of them fit the grid
C7_Witness ==
    /\ pc = "fatal"
    /\ vocabFile # ""
    /\ Cardinality(NonEmptyLines) >= wordCount
    /\ Cardinality(UsableLines) < wordCount

(***************************************************************************)
(* C8.  The selector returns at most wordCount words and at most as many   *)
(* as are available, each the upper-case form of an entry of the filtered  *)
(* list, each position drawn at most once.                                 *)
(***************************************************************************)
UpperVocabulary == [k \in 1..Len(vocabulary) |-> ToUpper(vocabulary[k])]

\* C8 as claimed: no duplicate entries in the filtered list, no duplicate words selected
C8_AsClaimed == NoDuplicates(vocabulary) => NoDuplicates(words)

\* C8 amended: the selected words have no duplicates when no two entries of the
\* filtered list have the same upper-case form
C8_SelectorDistinct ==
    pc # "load" =>
        /\ Len(words) <= wordCount
        /\ Len(words) <= Len(vocabulary)
        /\ \A k \in 1..Len(words) :
              Count(words, words[k]) <= Count(UpperVocabulary, words[k])
        /\ pc \in {"select"} =>
              \A k \in 1..Len(vocabulary) :
                  Count(words, UpperVocabulary[k])
                    + Count([m \in 1..Len(temp) |-> ToUpper(temp[m])], UpperVocabulary[k])
                  = Count(UpperVocabulary, UpperVocabulary[k])
        /\ NoDuplicates(UpperVocabulary) => NoDuplicates(words)
        /\ pc \notin {"select", "fatal"} =>
              Len(words) = IF Len(vocabulary) < wordCount THEN Len(vocabulary) ELSE wordCount

\* wordCount words selected out of more, from lower-case entries
C8_Witness ==
    /\ pc = "draw"
    /\ Len(words) = wordCount
    /\ Len(vocabulary) > wordCount
    /\ NoDuplicates(UpperVocabulary)
    /\ \A k \in 1..Len(words) : words[k] \notin Range(vocabulary)

(***************************************************************************)
(* C9.  A word that uses up its attempt budget does not abort the run      *)
(* and is absent from the puzzle: it has no entry in the placement list    *)
(* and is not among the words listed on the image.                         *)
(***************************************************************************)
C9_FailedWordAbsent ==
    pc = "done" =>
        \A k \in 1..Len(warnings) :
            /\ Count(PlacedWords, warnings[k]) < Count(words, warnings[k])
            /\ warnings[k] \notin Range(listed)

(***************************************************************************)
(* C10.  No step changes a cell that holds a letter; a rejected attempt    *)
(* leaves the grid and the placement list as they are.                     *)
(***************************************************************************)
C10_LettersNeverChange ==
    [][ /\ \A r \in Coords, c \in Coords : grid[r][c] # 0 => grid'[r][c] = grid[r][c]
        /\ (totalAttempts' # totalAttempts /\ Len(placements') = Len(placements)) =>
              grid' = grid /\ placements' = placements
        /\ Len(placements') > Len(placements) =>
              /\ SubSeq(placements', 1, Len(placements)) = placements
              /\ \A r \in Coords, c \in Coords :
                    grid'[r][c] # grid[r][c] =>
                        \E i \in Offsets(placements'[Len(placements')]) :
                            CellAt(placements'[Len(placements')], i) = <<r, c>>
        /\ pc' = "done" => imageGrid' = grid'
      ]_vars

\* a crossing placement has rewritten a letter, another attempt was rejected, and
\* the fill pass has run
C10_Witness ==
    /\ pc = "output"
    /\ SomeCrossing
    /\ totalAttempts > Len(placements)

====
